---- MODULE Spec2Model ----
(***************************************************************************)
(* Model of translate.py: the Flask handlers /chat, /transcribe and /speak *)
(* and the helpers translate_text and get_groq_response.                   *)
(*                                                                         *)
(* A text is a sequence of code points.  An ASCII code point is written as *)
(* itself ("a", " ", "*"), any other one as "U+XXXX".                      *)
(***************************************************************************)
EXTENDS Integers, Sequences, FiniteSets, TLC

VARIABLES turn, recleaned, treq, speak, procs

vars == <<turn, recleaned, treq, speak, procs>>

\* ------------------------------------------------------------------ bounds
NumTurns == 2
MaxLen == 4
NumSpeak == 2
MaxChunks == 1

Turns == 1..NumTurns

\* ------------------------------------------------------------------ texts
\* str.isspace(): what str.strip() and str.split() treat as whitespace.
Whitespace ==
    {" ", "\t", "\n", "\r", "U+000B", "U+000C", "U+001C", "U+001D", "U+001E",
     "U+001F", "U+0085", "U+00A0", "U+1680", "U+2000", "U+2001", "U+2002",
     "U+2003", "U+2004", "U+2005", "U+2006", "U+2007", "U+2008", "U+2009",
     "U+200A", "U+2028", "U+2029", "U+202F", "U+205F", "U+3000"}

\* The character class of the cleaning pattern, code point by code point, as
\* the source file holds it.
DecorativeChars ==
    {"*", "+", "-", "U+00A1", "U+00A2", "U+00A5", "U+00A8", "U+00B6", "U+00B8",
     "U+00E2", "U+00EF", "U+00F0", "U+0152", "U+0153", "U+0161", "U+0178",
     "U+017D", "U+02C6", "U+2013", "U+2014", "U+2019", "U+201C", "U+201D",
     "U+2020", "U+2026", "U+20AC", "U+2122"}

\* "This is a disaster-related question: "
Prefix ==
    <<"T", "h", "i", "s", " ", "i", "s", " ", "a", " ", "d", "i", "s", "a",
      "s", "t", "e", "r", "-", "r", "e", "l", "a", "t", "e", "d", " ", "q",
      "u", "e", "s", "t", "i", "o", "n", ":", " ">>

RECURSIVE LStrip(_)
LStrip(s) ==
    IF s = <<>> THEN <<>>
    ELSE IF Head(s) \in Whitespace THEN LStrip(Tail(s)) ELSE s

RECURSIVE RStrip(_)
RStrip(s) ==
    IF s = <<>> THEN <<>>
    ELSE IF s[Len(s)] \in Whitespace THEN RStrip(SubSeq(s, 1, Len(s) - 1)) ELSE s

\* str.strip()
Strip(s) == RStrip(LStrip(s))

\* The first whitespace-free run of s, s not starting with whitespace.
RECURSIVE Word(_)
Word(s) ==
    IF s = <<>> \/ Head(s) \in Whitespace THEN <<>>
    ELSE <<Head(s)>> \o Word(Tail(s))

\* str.split(): the maximal whitespace-free runs, in order.
RECURSIVE Split(_)
Split(s) ==
    LET r == LStrip(s)
    IN  IF r = <<>> THEN <<>>
        ELSE <<Word(r)>> \o Split(SubSeq(r, Len(Word(r)) + 1, Len(r)))

\* re.sub(r"[...]", "", s)
RemoveDecorative(s) == SelectSeq(s, LAMBDA c : c \notin DecorativeChars)

CleanStripFirst(s) == RemoveDecorative(Strip(s))

\* The cleaning step of chat: the substitution, then .strip().
Clean(s) == Strip(RemoveDecorative(s))

\* p in s
Contains(s, p) ==
    \E i \in 0..(Len(s) - Len(p)) : SubSeq(s, i + 1, i + Len(p)) = p

HasDecorative(s) == \E i \in 1..Len(s) : s[i] \in DecorativeChars

\* All texts over the alphabet A of at most n code points.
RECURSIVE TextsUpTo(_, _)
TextsUpTo(A, n) ==
    IF n = 0 THEN {<<>>}
    ELSE LET S == TextsUpTo(A, n - 1)
         IN  S \cup {Append(s, c) : s \in {x \in S : Len(x) = n - 1}, c \in A}

\* ------------------------------------------------------------------ catalog
LANGUAGES == {"hi", "te", "ta", "bn", "mr", "ml", "kn", "en"}

DefaultVoice == "en-US-JennyNeural"

VOICE_MAP ==
    [l \in {"en", "hi", "bn", "ta", "te", "mr", "gu", "kn", "ml", "pa", "ur"} |->
        CASE l = "en" -> "en-US-JennyNeural"
          [] l = "hi" -> "hi-IN-SwaraNeural"
          [] l = "bn" -> "bn-IN-TanishaaNeural"
          [] l = "ta" -> "ta-IN-PallaviNeural"
          [] l = "te" -> "te-IN-ShrutiNeural"
          [] l = "mr" -> "mr-IN-AarohiNeural"
          [] l = "gu" -> "gu-IN-DhwaniNeural"
          [] l = "kn" -> "kn-IN-SapnaNeural"
          [] l = "ml" -> "ml-IN-SobhanaNeural"
          [] l = "pa" -> "pa-IN-OjasNeural"
          [] l = "ur" -> "ur-IN-GulNeural"]

\* ------------------------------------------------------------------ values
\* A Python value that is None or a str.
NoneValue == [none |-> TRUE, text |-> <<>>]
Str(s) == [none |-> FALSE, text |-> s]

\* A key of the request's JSON object or form: absent, null, or a value.
JsonAbsent == [kind |-> "absent", text |-> <<>>]
JsonNull == [kind |-> "null", text |-> <<>>]
JsonStr(s) == [kind |-> "str", text |-> s]

ArgAbsent == [kind |-> "absent", code |-> ""]
Arg(c) == [kind |-> "str", code |-> c]

\* data.get("input")
JsonGet(v) == IF v.kind = "str" THEN Str(v.text) ELSE NoneValue

\* data.get("lang_code", "en"), request.form.get(..., "en"), request.args.get(..., "en")
GetOrDefault(a, d) == IF a.kind = "absent" THEN d ELSE a.code

FalsyOnlyNone(v) == v.none

\* not user_input
Falsy(v) == v.none \/ v.text = <<>>

NoError == [msg |-> "", detail |-> ""]
Error(m, d) == [msg |-> m, detail |-> d]

\* What an external service does with one call: it raises, or it replies.
Raised == [raised |-> TRUE, reply |-> <<>>]
Replied(r) == [raised |-> FALSE, reply |-> r]
Outcomes(R) == {Raised} \cup {Replied(r) : r \in R}

Call(svc, source, target, text) ==
    [svc |-> svc, source |-> source, target |-> target, text |-> text]

\* ------------------------------------------------------------------ translate_text
\* Whether translate_text reaches the translation service at all.
NeedsService(target_lang, source_lang) == source_lang # target_lang

TranslateTextEmptyOnFailure(text, target_lang, source_lang, outcome) ==
    IF ~NeedsService(target_lang, source_lang) THEN text
    ELSE IF outcome.raised THEN <<>> ELSE outcome.reply

\* translate_text, given what the service does when it is called.
TranslateText(text, target_lang, source_lang, outcome) ==
    IF ~NeedsService(target_lang, source_lang) THEN text
    ELSE IF outcome.raised THEN text ELSE outcome.reply

\* ------------------------------------------------------------------ /chat
IdleTurn ==
    [pc |-> "idle", input |-> JsonAbsent, lang |-> ArgAbsent,
     user_input |-> NoneValue, lang_code |-> "", english_input |-> <<>>,
     prompt |-> <<>>, groq_response |-> <<>>, translated_response |-> <<>>,
     status |-> 0, error |-> NoError, response |-> NoneValue, calls |-> <<>>,
     tin |-> "none", groq |-> "none", tout |-> "none"]

PadShortOffByOne(english_input) ==
    IF Len(Split(Strip(english_input))) <= 3 THEN Prefix \o english_input
    ELSE english_input

\* The short-input padding: the prompt for the translated text.
PadShort(english_input) ==
    IF Len(Split(Strip(english_input))) < 3 THEN Prefix \o english_input
    ELSE english_input

\* return jsonify({"error": "Missing input text"}), 400
Reject(r) ==
    [r EXCEPT !.pc = "done", !.status = 400,
              !.error = Error("Missing input text", "")]

ToCompletionRetry(r, english_input) ==
    [r EXCEPT !.english_input = english_input,
              !.prompt = PadShort(english_input),
              !.pc = "groq",
              !.calls = @ \o <<Call("groq", "", "", PadShort(english_input)),
                               Call("groq", "", "", PadShort(english_input))>>]

\* From the return of the input translation to the completion call.
ToCompletion(r, english_input) ==
    [r EXCEPT !.english_input = english_input,
              !.prompt = PadShort(english_input),
              !.pc = "groq",
              !.calls = Append(@, Call("groq", "", "", PadShort(english_input)))]

\* From the return of the output translation to the handler's return.
Finish(r, translated_response) ==
    [r EXCEPT !.translated_response = translated_response,
              !.response = Str(Clean(translated_response)),
              !.status = 200, !.pc = "done"]

\* From the request to the first external call (or to the 400).
ChatStart(r) ==
    IF Falsy(r.user_input) THEN Reject(r)
    ELSE IF NeedsService("en", r.lang_code)
         THEN [r EXCEPT !.pc = "translate_in",
                        !.calls = Append(@, Call("translate", r.lang_code, "en",
                                                 r.user_input.text))]
         ELSE ToCompletion([r EXCEPT !.tin = "skipped"],
                           TranslateText(r.user_input.text, "en", r.lang_code, Raised))

\* From the completion's reply to the next external call (or to the return).
AfterCompletion(r) ==
    IF NeedsService(r.lang_code, "en")
    THEN [r EXCEPT !.pc = "translate_out",
                   !.calls = Append(@, Call("translate", "en", r.lang_code,
                                            r.groq_response))]
    ELSE Finish([r EXCEPT !.tout = "skipped"],
                TranslateText(r.groq_response, r.lang_code, "en", Raised))

\* POST /chat arrives: lines 109-117.
ChatRequest(t, inputs, langs) ==
    /\ turn[t].pc = "idle"
    /\ \E inp \in inputs, lc \in langs :
         turn' = [turn EXCEPT ![t] =
                    ChatStart([@ EXCEPT !.input = inp, !.lang = lc,
                                        !.user_input = JsonGet(inp),
                                        !.lang_code = GetOrDefault(lc, "en")])]
    /\ UNCHANGED <<recleaned, treq, speak, procs>>

\* The input translation returns or raises: lines 117-130.
TranslateInReturn(t, replies) ==
    /\ turn[t].pc = "translate_in"
    /\ \E o \in Outcomes(replies) :
         turn' = [turn EXCEPT ![t] =
                    ToCompletion([@ EXCEPT !.tin = IF o.raised THEN "failed" ELSE "ok"],
                                 TranslateText(@.user_input.text, "en", @.lang_code, o))]
    /\ UNCHANGED <<recleaned, treq, speak, procs>>

\* The completion replies: lines 130-135.
GroqReturn(t, replies) ==
    /\ turn[t].pc = "groq"
    /\ \E reply \in replies :
         turn' = [turn EXCEPT ![t] =
                    AfterCompletion([@ EXCEPT !.groq = "ok", !.groq_response = reply])]
    /\ UNCHANGED <<recleaned, treq, speak, procs>>

GroqFailSwallowed(t) ==
    /\ turn[t].pc = "groq"
    /\ turn' = [turn EXCEPT ![t] = AfterCompletion([@ EXCEPT !.groq = "failed"])]
    /\ UNCHANGED <<recleaned, treq, speak, procs>>

\* The completion fails: get_groq_response raises RuntimeError, which chat
\* does not catch, and the turn ends with the server's 500.
GroqFail(t) ==
    /\ turn[t].pc = "groq"
    /\ \E e \in {"timeout", "unauthorized"} :
         turn' = [turn EXCEPT ![t] =
                    [@ EXCEPT !.groq = "failed", !.pc = "done", !.status = 500,
                              !.error = Error("Groq API error", e)]]
    /\ UNCHANGED <<recleaned, treq, speak, procs>>

\* The output translation returns or raises: lines 135-142.
TranslateOutReturn(t, replies) ==
    /\ turn[t].pc = "translate_out"
    /\ \E o \in Outcomes(replies) :
         turn' = [turn EXCEPT ![t] =
                    Finish([@ EXCEPT !.tout = IF o.raised THEN "failed" ELSE "ok"],
                           TranslateText(@.groq_response, @.lang_code, "en", o))]
    /\ UNCHANGED <<recleaned, treq, speak, procs>>

\* The cleaning step applied once more to a turn's response.
Reclean(t) ==
    /\ turn[t].pc = "done"
    /\ ~turn[t].response.none
    /\ recleaned.none
    /\ recleaned' = Str(Clean(turn[t].response.text))
    /\ UNCHANGED <<turn, treq, speak, procs>>

\* ------------------------------------------------------------------ /transcribe
IdleTranscribe ==
    [pc |-> "idle", has_audio |-> FALSE, lang |-> ArgAbsent, lang_code |-> "",
     calls |-> <<>>, whisper |-> "none", text |-> NoneValue, status |-> 0,
     error |-> NoError, transcript |-> NoneValue]

\* POST /transcribe arrives: lines 149-163.
TranscribeRequest(langs) ==
    /\ treq.pc = "idle"
    /\ \E audio \in BOOLEAN, lc \in langs :
         LET r == [treq EXCEPT !.has_audio = audio, !.lang = lc,
                               !.lang_code = GetOrDefault(lc, "en")]
         IN  treq' = IF ~audio
                     THEN [r EXCEPT !.pc = "done", !.status = 400,
                                    !.error = Error("No audio file provided", "")]
                     ELSE [r EXCEPT !.pc = "whisper",
                                    !.calls = Append(@, Call("whisper", r.lang_code,
                                                             "", <<>>))]
    /\ UNCHANGED <<turn, recleaned, speak, procs>>

NoSpeechNoStrip(user_input) == user_input.none \/ user_input.text = <<>>

\* not user_input or not user_input.strip()
NoSpeech(user_input) ==
    user_input.none \/ user_input.text = <<>> \/ Strip(user_input.text) = <<>>

\* The transcription replies: lines 164-168.
WhisperReturn(texts) ==
    /\ treq.pc = "whisper"
    /\ \E text \in texts :
         treq' = IF NoSpeech(text)
                 THEN [treq EXCEPT !.pc = "done", !.whisper = "ok", !.text = text,
                                   !.status = 400,
                                   !.error = Error("No speech detected", "")]
                 ELSE [treq EXCEPT !.pc = "done", !.whisper = "ok", !.text = text,
                                   !.status = 200,
                                   !.transcript = Str(Strip(text.text))]
    /\ UNCHANGED <<turn, recleaned, speak, procs>>

\* The transcription raises: lines 170-171.
WhisperFail ==
    /\ treq.pc = "whisper"
    /\ \E e \in {"timeout", "No speech detected"} :
         treq' = [treq EXCEPT !.pc = "done", !.whisper = "failed", !.status = 500,
                              !.error = Error("Transcription failed", e)]
    /\ UNCHANGED <<turn, recleaned, speak, procs>>

\* ------------------------------------------------------------------ /speak
SpeakReqs == 1..NumSpeak

IdleSpeak ==
    [pc |-> "idle", text |-> <<>>, lang |-> ArgAbsent, lang_code |-> "",
     voice |-> "", status |-> 0, error |-> NoError, pid |-> 0, spawned |-> 0,
     sent |-> <<>>, end |-> ""]

VoiceForNoFallback(lang_code) ==
    IF lang_code \in DOMAIN VOICE_MAP THEN VOICE_MAP[lang_code] ELSE ""

\* VOICE_MAP.get(lang_code, "en-US-JennyNeural")
VoiceFor(lang_code) ==
    IF lang_code \in DOMAIN VOICE_MAP THEN VOICE_MAP[lang_code] ELSE DefaultVoice

\* GET /speak arrives: lines 80-86 and 99.  The generator is created, not run.
SpeakRequest(r, texts, langs) ==
    /\ speak[r].pc = "idle"
    /\ \E text \in texts, lc \in langs :
         LET q == [speak[r] EXCEPT !.text = text, !.lang = lc,
                                   !.lang_code = GetOrDefault(lc, "en")]
         IN  speak' = [speak EXCEPT ![r] =
                IF text = <<>>
                THEN [q EXCEPT !.pc = "done", !.status = 400,
                               !.error = Error("No text provided", "")]
                ELSE [q EXCEPT !.pc = "response", !.status = 200,
                               !.voice = VoiceFor(q.lang_code)]]
    /\ UNCHANGED <<turn, recleaned, treq, procs>>

\* The server takes the first item of the response: generate() runs to its
\* first read, lines 89-94.  Popen starts a new edge-tts process.
GenStart(r) ==
    /\ speak[r].pc = "response"
    /\ procs' = Append(procs, [state |-> "running", owner |-> r,
                               voice |-> speak[r].voice, text |-> speak[r].text,
                               pipe |-> <<>>, written |-> 0, reader_open |-> TRUE])
    /\ speak' = [speak EXCEPT ![r] = [@ EXCEPT !.pc = "reading",
                                               !.pid = Len(procs) + 1,
                                               !.spawned = @ + 1]]
    /\ UNCHANGED <<turn, recleaned, treq>>

\* The edge-tts process writes its next chunk of audio to stdout; with the
\* read end of the pipe closed the write kills it (SIGPIPE).
ProcWrite(p) ==
    /\ p \in DOMAIN procs
    /\ procs[p].state = "running"
    /\ procs[p].written < MaxChunks
    /\ procs' = [procs EXCEPT ![p] =
                    IF @.reader_open
                    THEN [@ EXCEPT !.pipe = Append(@, procs[p].written + 1),
                                   !.written = @ + 1]
                    ELSE [@ EXCEPT !.state = "exited"]]
    /\ UNCHANGED <<turn, recleaned, treq, speak>>

\* The edge-tts process is done: it exits, which closes its stdout.
ProcExit(p) ==
    /\ p \in DOMAIN procs
    /\ procs[p].state = "running"
    /\ procs' = [procs EXCEPT ![p] = [@ EXCEPT !.state = "exited"]]
    /\ UNCHANGED <<turn, recleaned, treq, speak>>

\* The generator, started or resumed after its last yield, reads on:
\* process.stdout.read(4096) returns data, which is yielded: lines 94-97.
GenRead(r) ==
    /\ speak[r].pc \in {"reading", "yielded"}
    /\ procs[speak[r].pid].pipe # <<>>
    /\ speak' = [speak EXCEPT ![r] =
                    [@ EXCEPT !.pc = "yielded",
                              !.sent = Append(@, Head(procs[speak[r].pid].pipe))]]
    /\ procs' = [procs EXCEPT ![speak[r].pid] = [@ EXCEPT !.pipe = Tail(@)]]
    /\ UNCHANGED <<turn, recleaned, treq>>

\* read returns b"" at end of output: break, the generator returns and its
\* Popen object, with the pipe's read end, is dropped: lines 95-96.
GenEOF(r) ==
    /\ speak[r].pc \in {"reading", "yielded"}
    /\ procs[speak[r].pid].pipe = <<>>
    /\ procs[speak[r].pid].state = "exited"
    /\ speak' = [speak EXCEPT ![r] = [@ EXCEPT !.pc = "ended", !.end = "completed"]]
    /\ procs' = [procs EXCEPT ![speak[r].pid] = [@ EXCEPT !.reader_open = FALSE]]
    /\ UNCHANGED <<turn, recleaned, treq>>

\* The caller goes away while the generator is suspended at its yield: the
\* server closes the generator, which has no finally clause, so the Popen
\* object is dropped and nothing terminates the process.
ClientAbandon(r) ==
    /\ speak[r].pc = "yielded"
    /\ speak' = [speak EXCEPT ![r] = [@ EXCEPT !.pc = "ended", !.end = "abandoned"]]
    /\ procs' = [procs EXCEPT ![speak[r].pid] = [@ EXCEPT !.reader_open = FALSE]]
    /\ UNCHANGED <<turn, recleaned, treq>>

\* ------------------------------------------------------------------ inputs
ChatInputs ==
    {JsonAbsent, JsonNull, JsonStr(<<>>), JsonStr(<<" ">>),
     JsonStr(<<"h", "i">>), JsonStr(<<"a", " ", "b">>),
     JsonStr(<<" ", "a", " ", " ", "b", "\n", "c">>),
     JsonStr(Prefix \o <<"h", "e", "l", "p">>)}

ChatLangs == {ArgAbsent, Arg("en"), Arg("hi"), Arg("fr")}

TranslateReplies ==
    {<<>>, <<"o", "k">>, <<"a", " ", "b", "\t", "c", " ">>,
     Prefix \o <<"n", "o", "w">>}

GroqReplies ==
    {<<>>, <<"*", " ", "a", "-", "b", " ">>, <<"U+2022", " ", "o", "k">>}

TranscribeLangs == {ArgAbsent, Arg("hi"), Arg("fr")}

Transcripts ==
    {NoneValue, Str(<<>>), Str(<<" ", "\n">>), Str(<<" ", "h", "i", " ">>),
     Str(<<"h", "i">>)}

ConcInputs == {JsonStr(<<>>), JsonStr(<<"h", "i">>)}
ConcLangs == {Arg("en"), Arg("hi")}
ConcReplies == {<<"o", "k">>, <<"*", "a">>}

CleanAlphabet == {"a", " ", "*", "U+2013", "U+2022"}
CleanInputs == {JsonStr(<<"h", "i">>)}
CleanLangs == {Arg("en"), Arg("hi")}

SpeakTexts == {<<>>, <<"h", "i">>}
SpeakLangs == {ArgAbsent, Arg("gu"), Arg("xx")}

\* ------------------------------------------------------------------ specifications
Init ==
    /\ turn = [t \in Turns |-> IdleTurn]
    /\ recleaned = NoneValue
    /\ treq = IdleTranscribe
    /\ speak = [r \in SpeakReqs |-> IdleSpeak]
    /\ procs = <<>>

\* One /chat turn and one /transcribe request, over the full input sets.
Next ==
    \/ ChatRequest(1, ChatInputs, ChatLangs)
    \/ TranslateInReturn(1, TranslateReplies)
    \/ GroqReturn(1, GroqReplies)
    \/ GroqFail(1)
    \/ TranslateOutReturn(1, TranslateReplies)
    \/ TranscribeRequest(TranscribeLangs)
    \/ WhisperReturn(Transcripts)
    \/ WhisperFail

Spec == Init /\ [][Next]_vars

\* Concurrent /chat turns.
NextConc ==
    \E t \in Turns :
        \/ ChatRequest(t, ConcInputs, ConcLangs)
        \/ TranslateInReturn(t, ConcReplies)
        \/ GroqReturn(t, ConcReplies)
        \/ GroqFail(t)
        \/ TranslateOutReturn(t, ConcReplies)

SpecConc == Init /\ [][NextConc]_vars

\* One /chat turn whose completion ranges over every text of at most MaxLen
\* code points, cleaned by the handler and then cleaned once more.
NextClean ==
    \/ ChatRequest(1, CleanInputs, CleanLangs)
    \/ TranslateInReturn(1, {<<"h", "i">>})
    \/ GroqReturn(1, TextsUpTo(CleanAlphabet, MaxLen))
    \/ TranslateOutReturn(1, {<<" ", "*", "o", "k">>})
    \/ Reclean(1)

SpecClean == Init /\ [][NextClean]_vars

\* Concurrent /speak requests and their edge-tts processes.
NextSpeak ==
    \/ \E r \in SpeakReqs :
        \/ SpeakRequest(r, SpeakTexts, SpeakLangs)
        \/ GenStart(r)
        \/ GenRead(r)
        \/ GenEOF(r)
        \/ ClientAbandon(r)
    \/ \E p \in SpeakReqs :
        \/ ProcWrite(p)
        \/ ProcExit(p)

SpecSpeak == Init /\ [][NextSpeak]_vars

\* ------------------------------------------------------------------ claims
\* The number of whitespace-separated tokens of s: the places where a token starts.
TokenCount(s) ==
    Cardinality({i \in 1..Len(s) :
                    /\ s[i] \notin Whitespace
                    /\ (i = 1 \/ s[i - 1] \in Whitespace)})

InputMissing(r) == r.input.kind \in {"absent", "null"} \/ r.input.text = <<>>

CallsOf(r, svc) == SelectSeq(r.calls, LAMBDA c : c.svc = svc)

\* C1: a /chat request whose input is absent, null or empty ends at once with
\* HTTP 400 and an error, and no translation or completion call is made for it.
C1_MissingInputRejected ==
    \A t \in Turns :
        (turn[t].pc # "idle" /\ InputMissing(turn[t])) =>
            /\ turn[t].pc = "done"
            /\ turn[t].status = 400
            /\ turn[t].error.msg # ""
            /\ turn[t].response.none
            /\ turn[t].calls = <<>>

C1_Witness ==
    \E t \in Turns :
        /\ turn[t].pc = "done"
        /\ turn[t].input = JsonStr(<<>>)
        /\ turn[t].status = 400

\* C2 as stated: below 3 tokens the prompt passed to the completion service
\* contains the prefix in front of the translated text; from 3 tokens on it
\* does not contain the prefix and is the translated text itself.
C2_PrefixIffShort ==
    \A t \in Turns :
        \A i \in 1..Len(CallsOf(turn[t], "groq")) :
            LET prompt == CallsOf(turn[t], "groq")[i].text
                text == turn[t].english_input
            IN  IF TokenCount(text) < 3
                THEN prompt = Prefix \o text /\ Contains(prompt, Prefix)
                ELSE prompt = text /\ ~Contains(prompt, Prefix)

\* C2 as amended: below 3 tokens the prompt passed to the completion service
\* is the prefix followed by the translated text; from 3 tokens on no prefix
\* is added and the prompt is the translated text itself.
C2_PrefixAddedIffShort ==
    \A t \in Turns :
        \A i \in 1..Len(CallsOf(turn[t], "groq")) :
            LET prompt == CallsOf(turn[t], "groq")[i].text
                text == turn[t].english_input
            IN  IF TokenCount(text) < 3
                THEN prompt = Prefix \o text
                ELSE prompt = text

C2_Witness ==
    \E t \in Turns :
        /\ turn[t].tin = "ok"
        /\ Len(CallsOf(turn[t], "groq")) = 1
        /\ TokenCount(turn[t].english_input) >= 3
        /\ Contains(turn[t].english_input, Prefix)
        /\ turn[t].prompt = turn[t].english_input

\* C3: a translation that fails leaves the text as it was and the turn goes
\* on: after a failed input translation the completion is asked about the
\* original input, after a failed output translation the turn returns the
\* cleaned completion, and a turn ends without a response only for a missing
\* input or a failed completion.
C3_TranslationFailOpen ==
    \A t \in Turns :
        /\ turn[t].tin = "failed" =>
              /\ turn[t].english_input = turn[t].user_input.text
              /\ turn[t].pc \in {"groq", "translate_out", "done"}
              /\ Len(CallsOf(turn[t], "groq")) = 1
        /\ turn[t].tout = "failed" =>
              /\ turn[t].translated_response = turn[t].groq_response
              /\ turn[t].pc = "done"
              /\ turn[t].status = 200
              /\ ~turn[t].response.none
        /\ (turn[t].pc = "done" /\ turn[t].response.none) =>
              \/ InputMissing(turn[t])
              \/ turn[t].groq = "failed"

C3_Witness ==
    \E t \in Turns :
        /\ turn[t].tin = "failed"
        /\ turn[t].tout = "failed"
        /\ turn[t].pc = "done"
        /\ turn[t].status = 200
        /\ turn[t].response.text # <<>>

\* C4: a failed completion ends the turn with a reported error: the output
\* translation is never called, nothing is cleaned and no response is returned.
C4_CompletionFailClosed ==
    \A t \in Turns :
        turn[t].groq = "failed" =>
            /\ turn[t].pc = "done"
            /\ turn[t].status = 500
            /\ turn[t].error.msg = "Groq API error"
            /\ turn[t].response.none
            /\ turn[t].tout = "none"
            /\ turn[t].calls[Len(turn[t].calls)].svc = "groq"

C4_Witness ==
    \E t \in Turns :
        /\ turn[t].groq = "failed"
        /\ turn[t].tin = "ok"
        /\ turn[t].lang_code = "hi"

\* C5: the response of a turn holds no character of the cleaning pattern, and
\* cleaning it once more leaves it as it is.
C5_CleanIdempotent ==
    /\ \A t \in Turns :
          ~turn[t].response.none => ~HasDecorative(turn[t].response.text)
    /\ ~recleaned.none => recleaned.text = turn[1].response.text

C5_Witness ==
    /\ ~recleaned.none
    /\ HasDecorative(turn[1].translated_response)
    /\ turn[1].translated_response[1] \in Whitespace
    /\ turn[1].response.text # <<>>

AllWhitespace(s) == \A i \in 1..Len(s) : s[i] \in Whitespace

\* C6: /transcribe without an audio part returns 400 and an error and never
\* calls the transcription service; an empty or whitespace-only transcript
\* returns the no-speech error and no transcript; a failure of the service
\* returns a different message.
C6_TranscribeErrors ==
    /\ (treq.pc # "idle" /\ ~treq.has_audio) =>
          /\ treq.pc = "done"
          /\ treq.status = 400
          /\ treq.error.msg # ""
          /\ treq.calls = <<>>
    /\ (treq.whisper = "ok" /\ (treq.text.none \/ AllWhitespace(treq.text.text))) =>
          /\ treq.status = 400
          /\ treq.error = Error("No speech detected", "")
          /\ treq.transcript.none
    /\ treq.whisper = "failed" =>
          /\ treq.error.msg # ""
          /\ treq.error # Error("No speech detected", "")
          /\ treq.transcript.none

C6_Witness ==
    /\ treq.whisper = "ok"
    /\ treq.text = Str(<<" ", "\n">>)
    /\ treq.status = 400

\* C7: /speak with a text always selects a voice and starts synthesis with
\* it: the mapped voice for a key of the voice mapping, en-US-JennyNeural for
\* any other lang and for none.
C7_VoiceFallback ==
    \A r \in SpeakReqs :
        (speak[r].pc # "idle" /\ speak[r].text # <<>>) =>
            /\ speak[r].status = 200
            /\ speak[r].error = NoError
            /\ speak[r].voice =
                  IF speak[r].lang.kind = "str" /\ speak[r].lang.code \in DOMAIN VOICE_MAP
                  THEN VOICE_MAP[speak[r].lang.code]
                  ELSE "en-US-JennyNeural"
            /\ speak[r].pid # 0 => procs[speak[r].pid].voice = speak[r].voice

C7_Witness ==
    \E r \in SpeakReqs :
        /\ speak[r].lang = Arg("xx")
        /\ speak[r].pid # 0
        /\ procs[speak[r].pid].voice = "en-US-JennyNeural"

\* C8: every language code passed to the translation or the transcription
\* service is a key of LANGUAGES, and a request code that is no key is
\* replaced by the default before use.
C8_CodesInCatalog ==
    /\ \A t \in Turns :
          /\ \A i \in 1..Len(CallsOf(turn[t], "translate")) :
                /\ CallsOf(turn[t], "translate")[i].source \in LANGUAGES
                /\ CallsOf(turn[t], "translate")[i].target \in LANGUAGES
          /\ \A i \in 1..Len(CallsOf(turn[t], "translate")) :
                turn[t].lang.code \notin LANGUAGES =>
                    {CallsOf(turn[t], "translate")[i].source,
                     CallsOf(turn[t], "translate")[i].target} = {"en"}
    /\ \A i \in 1..Len(treq.calls) :
          /\ treq.calls[i].source \in LANGUAGES
          /\ treq.lang.code \notin LANGUAGES => treq.calls[i].source = "en"

\* C9: every streamed /speak response starts exactly one subprocess, shared
\* with no other request, relays its chunks in order up to the end of its
\* output, and once the response has ended, completed or abandoned, the
\* subprocess is no longer running.
C9_SubprocessScopedToResponse ==
    /\ \A r \in SpeakReqs :
          /\ speak[r].pc \in {"reading", "yielded", "ended"} =>
                /\ speak[r].spawned = 1
                /\ procs[speak[r].pid].owner = r
                /\ speak[r].sent = [i \in 1..Len(speak[r].sent) |-> i]
                /\ Len(speak[r].sent) + Len(procs[speak[r].pid].pipe)
                      = procs[speak[r].pid].written
          /\ speak[r].end = "completed" =>
                Len(speak[r].sent) = procs[speak[r].pid].written
          /\ speak[r].pc = "ended" => procs[speak[r].pid].state # "running"
    /\ \A r1, r2 \in SpeakReqs :
          (r1 # r2 /\ speak[r1].pid # 0) => speak[r1].pid # speak[r2].pid

\* C10: a turn issues its external calls in the order input translation,
\* completion, output translation, each at most once and each only after the
\* one before has returned; what it holds is computed from its own request
\* and replies; and a step of one turn changes no other turn.
C10_CallOrder(r) ==
    LET tr == IF NeedsService("en", r.lang_code)
              THEN <<Call("translate", r.lang_code, "en", r.user_input.text)>>
              ELSE <<>>
        full == tr \o <<Call("groq", "", "", r.prompt)>>
                   \o <<Call("translate", "en", r.lang_code, r.groq_response)>>
    IN  /\ Len(r.calls) <= Len(full)
        /\ r.calls = SubSeq(full, 1, Len(r.calls))
        /\ Len(CallsOf(r, "groq")) = 1 => r.tin \in {"skipped", "ok", "failed"}
        /\ Len(CallsOf(r, "groq")) = 1 => r.prompt = PadShort(r.english_input)
        /\ Len(r.calls) = Len(full) => r.groq = "ok"
        /\ ~r.response.none =>
              /\ r.groq = "ok"
              /\ r.tout \in {"skipped", "ok", "failed"}
              /\ r.response.text = Clean(r.translated_response)
        /\ r.pc = "translate_in" => r.calls = tr
        /\ r.pc = "groq" => Len(r.calls) = Len(tr) + 1
        /\ r.pc = "translate_out" => Len(r.calls) = Len(full)

C10_SequentialIndependentTurns ==
    /\ [](\A t \in Turns : C10_CallOrder(turn[t]))
    /\ [][\A t, u \in Turns : (turn'[t] # turn[t] /\ u # t) => turn'[u] = turn[u]]_vars

C10_Witness ==
    /\ turn[1].pc = "done" /\ Len(turn[1].calls) = 3 /\ turn[1].status = 200
    /\ turn[2].pc = "translate_in"

====
